---- MODULE Spec2Model ----
(***************************************************************************)
(* Verification model of vox_updated.py: the cinema showtimes scraper.     *)
(*                                                                         *)
(*   Text is a sequence of one-character strings.  Markup is the parsed    *)
(*   tree the code walks (BeautifulSoup elements), reduced to the elements *)
(*   the code selects on.  An optional element is a sequence of length 0   *)
(*   or 1.  Dictionaries are functions; the empty dictionary is EmptyMap.  *)
(***************************************************************************)
EXTENDS Integers, Sequences, FiniteSets, TLC

VARIABLES
    pc,             \* control location of the running code
    caller,         \* who called enrich_movie_with_timings_for_dates
    listing_html,   \* the "what's on" page the server holds
    site,           \* detail pages the server may answer a GET with
    out_file,       \* the output file: 0 or 1 element, its content
    movies,         \* the list of Movie records
    cur,            \* index in movies of the movie being enriched
    args,           \* start_date_str and days_to_check of the enricher call
    start_date,     \* local start_date of the enricher (proleptic ordinal)
    i,              \* loop variable i of the enricher
    prior,          \* the movie as it was when the enricher was called
    fetched,        \* every URL passed to requests.get, in order
    daylog,         \* per iteration of the current enricher call: what happened
    failures,       \* number of failed detail requests so far
    raised,         \* the exception raised inside main's try block, or ""
    handled,        \* number of times main's except clause ran
    escaped,        \* an exception left the function under test
    writes,         \* number of completed writes of the output file
    nested_ol,      \* the time items of one experience (nested_ol.find_all("li"))
    pos,            \* position of the loop over nested_ol
    timings,        \* local timings of the loop over nested_ol
    origin,         \* for each element of timings, the item it came from
    detail_html,    \* input of extract_showtimes
    timings_by_place \* output of extract_showtimes

vars == <<pc, caller, listing_html, site, out_file, movies, cur, args,
          start_date, i, prior, fetched, daylog, failures, raised, handled,
          escaped, writes, nested_ol, pos, timings, origin, detail_html,
          timings_by_place>>

(***************************************************************************)
(* Bounds of the model.                                                    *)
(***************************************************************************)
MaxTextLen == 5      \* longest exhaustively enumerated text
MaxTimes == 2        \* most time items in one nested list
MaxNodes == 4        \* most children of the schedule container
MaxItems == 2        \* most experience items in one showtimes list
MaxDays == 3         \* largest days_to_check passed by the harness
MaxMovies == 2       \* most articles on the listing page
MaxFailures == 1     \* most failing detail requests in one run of main

(***************************************************************************)
(* Generic helpers.                                                        *)
(***************************************************************************)
EmptyMap == [k \in {} |-> {}]

\* dict.setdefault instead of assignment: the first writer wins.
PutKeepFirst(map, k, v) ==
    IF k \in DOMAIN map THEN map
    ELSE [x \in (DOMAIN map) \cup {k} |-> IF x = k THEN v ELSE map[x]]

Put(map, k, v) == [x \in (DOMAIN map) \cup {k} |-> IF x = k THEN v ELSE map[x]]

SeqsUpTo(S, n) == UNION {[1..k -> S] : k \in 0..n}

(***************************************************************************)
(* Text: str.strip(), get_text(" ", strip=True), the time pattern.         *)
(***************************************************************************)
Digits == {"0", "1", "2", "3", "4", "5", "6", "7", "8", "9"}
Letters == {"a", "b", "c", "d", "l", "m", "o", "p", "t", "u", "A", "B", "O", "S", "X", "Y", "_"}
Spaces == {" "}

IsDigit(c) == c \in Digits
IsWord(c) == c \in Digits \cup Letters
IsSpace(c) == c \in Spaces

RECURSIVE LStrip(_)
LStrip(t) == IF t # <<>> /\ IsSpace(Head(t)) THEN LStrip(Tail(t)) ELSE t

RECURSIVE RStrip(_)
RStrip(t) ==
    IF t # <<>> /\ IsSpace(t[Len(t)]) THEN RStrip(SubSeq(t, 1, Len(t) - 1)) ELSE t

Strip(t) == RStrip(LStrip(t))

\* element.get_text(" ", strip=True): every string of the element stripped,
\* the empty ones dropped, the rest joined by one space.
RECURSIVE GetText(_)
GetText(strings) ==
    IF strings = <<>> THEN <<>>
    ELSE LET h == Strip(Head(strings))
             r == GetText(Tail(strings))
         IN  IF h = <<>> THEN r
             ELSE IF r = <<>> THEN h
             ELSE h \o <<" ">> \o r

\* \b at position p (between t[p-1] and t[p]).
WordBoundary(t, p) ==
    (p > 1 /\ p - 1 <= Len(t) /\ IsWord(t[p - 1])) # (p <= Len(t) /\ IsWord(t[p]))

\* \b\d{k}:\d{2}\b matched at position p.
MatchAt(t, p, k) ==
    /\ WordBoundary(t, p)
    /\ p + k + 2 <= Len(t)
    /\ \A j \in p..(p + k - 1) : IsDigit(t[j])
    /\ t[p + k] = ":"
    /\ IsDigit(t[p + k + 1])
    /\ IsDigit(t[p + k + 2])
    /\ WordBoundary(t, p + k + 3)

\* Length of the match of \b\d{1,2}:\d{2}\b at p (greedy), 0 if none.
MatchLenAt(t, p) ==
    IF MatchAt(t, p, 2) THEN 5 ELSE IF MatchAt(t, p, 1) THEN 4 ELSE 0

\* time_pattern.findall(time_text): leftmost non-overlapping matches.
RECURSIVE FindAllFrom(_, _)
FindAllFrom(t, p) ==
    IF p > Len(t) THEN <<>>
    ELSE LET n == MatchLenAt(t, p)
         IN  IF n > 0 THEN <<SubSeq(t, p, p + n - 1)>> \o FindAllFrom(t, p + n)
             ELSE FindAllFrom(t, p + 1)

findall(time_text) == FindAllFrom(time_text, 1)

(***************************************************************************)
(* extract_showtimes.  Markup:                                             *)
(*   time item   [text, a]      <li>text<a>a</a></li>, a optional          *)
(*   experience  [strong, ol]   <li><strong>..</strong><ol>..</ol></li>    *)
(*   node        [tag, text, items]  a child of <div class="dates">:       *)
(*               "h3" (class highlight), "ol" (class showtimes), "p"       *)
(*   page        [dates]        the optional <div class="dates">           *)
(***************************************************************************)
\* The link is not looked for: always the text of the whole item.
TimeTextOfItem(time_li) == GetText(<<time_li.text>> \o time_li.a)

\* Lines 132-136: the text of the link if there is one, else of the item.
TimeText(time_li) ==
    IF time_li.a # <<>> THEN GetText(time_li.a)
    ELSE GetText(<<time_li.text>>)

\* Lines 137-144: what one time item adds to timings.
TimeTokens(time_li) ==
    LET time_text == TimeText(time_li)
        found_times == findall(time_text)
    IN  IF found_times # <<>> THEN found_times
        ELSE IF time_text # <<>> THEN <<time_text>>
        ELSE <<>>

\* Lines 130-144: the loop over nested_ol.find_all("li").
RECURSIVE ExtractTimings(_, _)
ExtractTimings(lis, acc) ==
    IF lis = <<>> THEN acc
    ELSE ExtractTimings(Tail(lis), acc \o TimeTokens(Head(lis)))

\* Lines 119-145: the loop over the top-level items of one showtimes list.
RECURSIVE ExperienceDict(_, _)
ExperienceDict(lis, experience_dict) ==
    IF lis = <<>> THEN experience_dict
    ELSE LET li == Head(lis)
         IN  IF li.strong = <<>> \/ li.ol = <<>>
             THEN ExperienceDict(Tail(lis), experience_dict)
             ELSE ExperienceDict(Tail(lis),
                      Put(experience_dict, GetText(li.strong),
                          ExtractTimings(li.ol[1], <<>>)))

\* place_header.find_next_sibling("ol", class_="showtimes"): the first
\* sibling after position p that is a showtimes list; 0 if there is none.
RECURSIVE FindNextSibling(_, _)
FindNextSibling(nodes, p) ==
    IF p + 1 > Len(nodes) THEN 0
    ELSE IF nodes[p + 1].tag = "ol" THEN p + 1
    ELSE FindNextSibling(nodes, p + 1)

\* Lines 113-147: the loop over dates_div.find_all("h3", class_="highlight").
RECURSIVE PlaceLoop(_, _, _)
PlaceLoop(nodes, p, by_place) ==
    IF p > Len(nodes) THEN by_place
    ELSE IF nodes[p].tag # "h3" THEN PlaceLoop(nodes, p + 1, by_place)
    ELSE LET place == GetText(<<nodes[p].text>>)
             showtimes_ol == FindNextSibling(nodes, p)
         IN  IF showtimes_ol = 0 THEN PlaceLoop(nodes, p + 1, by_place)
             ELSE PlaceLoop(nodes, p + 1,
                      Put(by_place, place,
                          ExperienceDict(nodes[showtimes_ol].items, EmptyMap)))

\* Lines 100-149.
extract_showtimes(html) ==
    IF html.dates = <<>> THEN EmptyMap
    ELSE PlaceLoop(html.dates[1], 1, EmptyMap)

(***************************************************************************)
(* Dates: datetime.strptime, datetime + timedelta, datetime.strftime.      *)
(* A datetime is held as its proleptic Gregorian ordinal, as the library   *)
(* does for its arithmetic (day 1 is 0001-01-01).                          *)
(***************************************************************************)
DigitChars == <<"0", "1", "2", "3", "4", "5", "6", "7", "8", "9">>

DigitVal(c) == CHOOSE n \in 0..9 : DigitChars[n + 1] = c

Pad2(n) == DigitChars[((n \div 10) % 10) + 1] \o DigitChars[(n % 10) + 1]

Pad4(n) == Pad2(n \div 100) \o Pad2(n % 100)

is_leap(y) == y % 4 = 0 /\ (y % 100 # 0 \/ y % 400 = 0)

DAYS_IN_MONTH == <<31, 28, 31, 30, 31, 30, 31, 31, 30, 31, 30, 31>>

DAYS_BEFORE_MONTH == <<0, 31, 59, 90, 120, 151, 181, 212, 243, 273, 304, 334>>

days_in_month(y, m) == IF m = 2 /\ is_leap(y) THEN 29 ELSE DAYS_IN_MONTH[m]

days_before_year(y) ==
    (y - 1) * 365 + (y - 1) \div 4 - (y - 1) \div 100 + (y - 1) \div 400

days_before_month(y, m) ==
    DAYS_BEFORE_MONTH[m] + (IF m > 2 /\ is_leap(y) THEN 1 ELSE 0)

ymd2ord(y, m, d) == days_before_year(y) + days_before_month(y, m) + d

\* The library's inverse of ymd2ord, by 400-, 100-, 4- and 1-year cycles.
ord2ymd(ordinal) ==
    LET n0 == ordinal - 1
        n400 == n0 \div 146097
        r400 == n0 % 146097
        n100 == r400 \div 36524
        r100 == r400 % 36524
        n4 == r100 \div 1461
        r4 == r100 % 1461
        n1 == r4 \div 365
        n == r4 % 365
        year == n400 * 400 + 1 + n100 * 100 + n4 * 4 + n1
        leapyear == n1 = 3 /\ (n4 # 24 \/ n100 = 3)
        month0 == (n + 50) \div 32
        preceding0 == DAYS_BEFORE_MONTH[month0]
                          + (IF month0 > 2 /\ leapyear THEN 1 ELSE 0)
        month == IF preceding0 > n THEN month0 - 1 ELSE month0
        preceding ==
            IF preceding0 > n
            THEN preceding0 - (DAYS_IN_MONTH[month]
                                  + (IF month = 2 /\ leapyear THEN 1 ELSE 0))
            ELSE preceding0
    IN  IF n1 = 4 \/ n100 = 4
        THEN [year |-> year - 1, month |-> 12, day |-> 31]
        ELSE [year |-> year, month |-> month, day |-> n - preceding + 1]

\* datetime.strptime(s, "%Y%m%d"): four digits of year, two of month, two
\* of day.
strptime(s) ==
    ymd2ord(DigitVal(s[1]) * 1000 + DigitVal(s[2]) * 100
                + DigitVal(s[3]) * 10 + DigitVal(s[4]),
            DigitVal(s[5]) * 10 + DigitVal(s[6]),
            DigitVal(s[7]) * 10 + DigitVal(s[8]))

\* strftime("%Y%m%d")
date_format(ordinal) ==
    LET d == ord2ymd(ordinal)
    IN  Pad4(d.year) \o Pad2(d.month) \o Pad2(d.day)

\* strftime("%Y-%m-%d")
output_date_format(ordinal) ==
    LET d == ord2ymd(ordinal)
    IN  Pad4(d.year) \o "-" \o Pad2(d.month) \o "-" \o Pad2(d.day)

DayNames ==
    <<"Monday", "Tuesday", "Wednesday", "Thursday", "Friday", "Saturday", "Sunday">>

\* The ordinal taken for the weekday number without the shift to Monday = 0.
strftime_A_Unshifted(ordinal) == DayNames[(ordinal % 7) + 1]

\* strftime("%A"): the name at index weekday() = (toordinal() + 6) % 7.
strftime_A(ordinal) == DayNames[((ordinal + 6) % 7) + 1]

(***************************************************************************)
(* Inputs of the parser specifications.                                    *)
(***************************************************************************)
TextAlphabet == {"1", ":", "a", " "}

AllTexts == SeqsUpTo(TextAlphabet, MaxTextLen)

SampleTexts ==
    { <<>>,
      <<"1", ":", "1", "1">>,
      <<" ", "a", " ">>,
      <<"1", ":", "1", "1", " ", "1", "2", ":", "0", "0">> }

TimeLi(text, a) == [text |-> text, a |-> a]

SampleTimeLis ==
    {TimeLi(t, a) : t \in SampleTexts, a \in {<<>>} \cup {<<u>> : u \in SampleTexts}}

TimeListInputs ==
    {<<TimeLi(t, <<>>)>> : t \in AllTexts}
        \cup {<<TimeLi(<<"a">>, <<t>>)>> : t \in AllTexts}
        \cup SeqsUpTo(SampleTimeLis, MaxTimes)

TimesA == <<TimeLi(<<"1", ":", "1", "1">>, <<>>)>>

TimesB == <<TimeLi(<<>>, <<<<"2", ":", "3", "0">>>>), TimeLi(<<"S", "o", "l", "d">>, <<>>)>>

Experience(strong, ol) == [strong |-> strong, ol |-> ol]

SampleExperiences ==
    {Experience(st, ol) :
        st \in {<<>>, <<<<"X">>>>, <<<<"Y">>>>},
        ol \in {<<>>, <<<<>>>>, <<TimesA>>, <<TimesB>>}}

H3(text) == [tag |-> "h3", text |-> text, items |-> <<>>]

Ol(items) == [tag |-> "ol", text |-> <<>>, items |-> items]

Other == [tag |-> "p", text |-> <<>>, items |-> <<>>]

WideNodes ==
    { H3(<<"A">>), H3(<<" ", "A">>), H3(<<"B">>), Other,
      Ol(<<Experience(<<<<"X">>>>, <<TimesA>>)>>),
      Ol(<<Experience(<<<<"X">>>>, <<TimesA>>), Experience(<<<<"X">>>>, <<TimesB>>)>>) }

Page(dates) == [dates |-> dates]

DetailInputs ==
    {Page(<<>>)}
        \cup {Page(<<nodes>>) : nodes \in SeqsUpTo(WideNodes, MaxNodes)}
        \cup {Page(<<<<H3(<<"A">>), Ol(items)>>>>) :
                  items \in SeqsUpTo(SampleExperiences, MaxItems)}

(***************************************************************************)
(* Specification SpecTimes: the loop of lines 130-144 over the time items  *)
(* of one experience, one iteration per step.                              *)
(***************************************************************************)
Idle ==
    /\ caller = "none" /\ listing_html = <<>> /\ site = {} /\ out_file = <<>>
    /\ movies = <<>> /\ cur = 0 /\ args = <<>> /\ start_date = 0 /\ i = 0
    /\ prior = <<>> /\ fetched = <<>> /\ daylog = <<>> /\ failures = 0
    /\ raised = "" /\ handled = 0 /\ escaped = FALSE /\ writes = 0

IdleParse == detail_html = Page(<<>>) /\ timings_by_place = <<>>

IdleTimes == nested_ol = <<>> /\ pos = 0 /\ timings = <<>> /\ origin = <<>>

mainVars ==
    <<caller, listing_html, site, out_file, movies, cur, args, start_date, i,
      prior, fetched, daylog, failures, raised, handled, escaped, writes>>

parseVars == <<detail_html, timings_by_place>>

timesVars == <<nested_ol, pos, timings, origin>>

InitTimes ==
    /\ pc = "time_loop"
    /\ nested_ol \in TimeListInputs
    /\ pos = 1
    /\ timings = <<>>
    /\ origin = <<>>
    /\ Idle /\ IdleParse

\* Lines 139-141: the pattern was found, timings.extend(found_times).
TimeLiExtend ==
    /\ pc = "time_loop" /\ pos <= Len(nested_ol)
    /\ LET time_text == TimeText(nested_ol[pos])
           found_times == findall(time_text)
       IN  /\ found_times # <<>>
           /\ timings' = timings \o found_times
           /\ origin' = origin \o [j \in 1..Len(found_times) |-> pos]
    /\ pos' = pos + 1
    /\ UNCHANGED <<pc, nested_ol, mainVars, parseVars>>

\* Lines 142-144: no match and a non-empty text, timings.append(time_text).
TimeLiAppend ==
    /\ pc = "time_loop" /\ pos <= Len(nested_ol)
    /\ LET time_text == TimeText(nested_ol[pos])
       IN  /\ findall(time_text) = <<>>
           /\ time_text # <<>>
           /\ timings' = Append(timings, time_text)
           /\ origin' = Append(origin, pos)
    /\ pos' = pos + 1
    /\ UNCHANGED <<pc, nested_ol, mainVars, parseVars>>

\* Lines 142-143: no match and an empty text, nothing is added.
TimeLiEmpty ==
    /\ pc = "time_loop" /\ pos <= Len(nested_ol)
    /\ LET time_text == TimeText(nested_ol[pos])
       IN  findall(time_text) = <<>> /\ time_text = <<>>
    /\ pos' = pos + 1
    /\ UNCHANGED <<pc, nested_ol, timings, origin, mainVars, parseVars>>

\* Line 131: the loop over the time items ends.
TimeLoopExit ==
    /\ pc = "time_loop" /\ pos > Len(nested_ol)
    /\ pc' = "time_done"
    /\ UNCHANGED <<timesVars, mainVars, parseVars>>

NextTimes == TimeLiExtend \/ TimeLiAppend \/ TimeLiEmpty \/ TimeLoopExit

SpecTimes == InitTimes /\ [][NextTimes]_vars

(***************************************************************************)
(* Specification SpecParse: extract_showtimes applied to one detail page.  *)
(***************************************************************************)
InitParse ==
    /\ pc = "parse"
    /\ detail_html \in DetailInputs
    /\ timings_by_place = <<>>
    /\ Idle /\ IdleTimes

\* Lines 106-108: no <div class="dates">, return {}.
ParseNoContainer ==
    /\ pc = "parse" /\ detail_html.dates = <<>>
    /\ timings_by_place' = extract_showtimes(detail_html)
    /\ pc' = "parse_done"
    /\ UNCHANGED <<detail_html, mainVars, timesVars>>

\* Lines 110-149: the container is there, walk it.
ParseContainer ==
    /\ pc = "parse" /\ detail_html.dates # <<>>
    /\ timings_by_place' = extract_showtimes(detail_html)
    /\ pc' = "parse_done"
    /\ UNCHANGED <<detail_html, mainVars, timesVars>>

NextParse == ParseNoContainer \/ ParseContainer

SpecParse == InitParse /\ [][NextParse]_vars

(***************************************************************************)
(* Movie records and parse_movies.  Markup of one <article                 *)
(* class="movie-summary">:                                                 *)
(*   data_slug, data_identifier, data_title   optional attributes          *)
(*   description, classification, language    optional nested elements     *)
(*   links     the <a> elements in document order, each [string, href,     *)
(*             img]: its .string (none when it holds an element), its      *)
(*             optional href, its optional <img> with optional data-src    *)
(***************************************************************************)
RECURSIVE Str(_)
Str(t) == IF t = <<>> THEN "" ELSE Head(t) \o Str(Tail(t))

\* Lines 12-36.
Movie(slug, identifier, title, description, image_url, classification, language, showtimes_url) ==
    [slug |-> slug, identifier |-> identifier, title |-> title,
     description |-> description, image_url |-> image_url,
     classification |-> classification, language |-> language,
     showtimes_url |-> showtimes_url, timings |-> EmptyMap]

\* article.get(name, "").strip(), and get_text(strip=True) of an optional
\* element holding one string.
StrippedOrEmpty(opt) == IF opt = <<>> THEN <<>> ELSE Strip(opt[1])

\* str.replace(old, "")
RECURSIVE Remove(_, _)
Remove(t, old) ==
    IF Len(t) < Len(old) THEN t
    ELSE IF SubSeq(t, 1, Len(old)) = old
         THEN Remove(SubSeq(t, Len(old) + 1, Len(t)), old)
         ELSE <<Head(t)>> \o Remove(Tail(t), old)

\* old in t
Contains(t, old) ==
    \E p \in 1..(Len(t) - Len(old) + 1) : SubSeq(t, p, p + Len(old) - 1) = old

LanguagePrefix == <<"L", "a", "n", "g", "u", "a", "g", "e", ":">>

ShowtimesWord == <<"S", "h", "o", "w", "t", "i", "m", "e", "s">>

\* Lines 64-69.
ImageUrl(article) ==
    IF article.links = <<>> THEN <<>>
    ELSE LET a_tag == article.links[1]
         IN  IF a_tag.img = <<>> THEN <<>>
             ELSE StrippedOrEmpty(a_tag.img[1].data_src)

\* Lines 81-84.
ShowtimesUrl(article) ==
    LET hits == {p \in 1..Len(article.links) :
                     /\ article.links[p].string # <<>>
                     /\ Contains(article.links[p].string[1], ShowtimesWord)}
    IN  IF hits = {} THEN <<>>
        ELSE LET first == CHOOSE p \in hits : \A q \in hits : p <= q
             IN  StrippedOrEmpty(article.links[first].href)

\* Lines 53-96: the record made from one article.
ParseArticle(article) ==
    Movie(Str(StrippedOrEmpty(article.data_slug)),
          Str(StrippedOrEmpty(article.data_identifier)),
          Str(StrippedOrEmpty(article.data_title)),
          Str(StrippedOrEmpty(article.description)),
          Str(ImageUrl(article)),
          Str(StrippedOrEmpty(article.classification)),
          Str(Strip(Remove(StrippedOrEmpty(article.language), LanguagePrefix))),
          Str(ShowtimesUrl(article)))

\* Lines 44-98.
parse_movies(html) == [n \in 1..Len(html) |-> ParseArticle(html[n])]

(***************************************************************************)
(* enrich_movie_with_timings_for_dates, one loop iteration per step.       *)
(***************************************************************************)
BASE_URL == "https://ksa.voxcinemas.com"

\* Line 174.
CurrentDate == start_date + i

\* The key's date format used in the URL too.
DetailUrlWrongParam(slug, date_str) ==
    BASE_URL \o "/movies/" \o slug \o "?date=" \o date_str \o "#showtimes"

\* Line 178.
DetailUrl(slug, date_str) ==
    BASE_URL \o "/movies/" \o slug \o "?d=" \o date_str \o "#showtimes"

\* Lines 184-187.
DayEntry(day_of_week, daily_timings) ==
    [day_of_week |-> day_of_week, showtimes |-> daily_timings]

\* The failing day stored without its weekday name.
ErrorEntryUnnamed(day_of_week) == [day_of_week |-> "", showtimes |-> EmptyMap]

\* Lines 190-193.
ErrorEntry(day_of_week) == [day_of_week |-> day_of_week, showtimes |-> EmptyMap]

\* The call without line 171: the old timings are kept.
EnterEnricherNoReset(m, start_date_str, n) ==
    /\ prior' = movies[m]
    /\ args' = [start_date_str |-> start_date_str, days_to_check |-> n]
    /\ start_date' = strptime(start_date_str)
    /\ movies' = movies
    /\ cur' = m
    /\ i' = 0
    /\ daylog' = <<>>
    /\ pc' = "enrich_loop"

\* Lines 166-171: the call, up to the loop.
EnterEnricher(m, start_date_str, n) ==
    /\ prior' = movies[m]
    /\ args' = [start_date_str |-> start_date_str, days_to_check |-> n]
    /\ start_date' = strptime(start_date_str)
    /\ movies' = [movies EXCEPT ![m].timings = EmptyMap]
    /\ cur' = m
    /\ i' = 0
    /\ daylog' = <<>>
    /\ pc' = "enrich_loop"

\* Lines 173-183: one iteration up to and including the GET; entry is what
\* the iteration stores under the date key.
EnrichDay(outcome, page, entry) ==
    /\ pc = "enrich_loop"
    /\ i < args.days_to_check
    /\ fetched' = Append(fetched, DetailUrl(movies[cur].slug, date_format(CurrentDate)))
    /\ movies' = [movies EXCEPT ![cur].timings =
                      Put(@, output_date_format(CurrentDate), entry)]
    /\ daylog' = Append(daylog, [key |-> output_date_format(CurrentDate),
                                 outcome |-> outcome, page |-> page])
    /\ i' = i + 1

\* A failing request is allowed while the run's budget of failures lasts
\* (main only: the harness has no budget).
MayFail == caller = "main" => failures < MaxFailures

\* Lines 181-187: the GET and the parse succeed.
EnrichDayOk ==
    /\ \E page \in site :
           EnrichDay("ok", <<page>>,
                     DayEntry(strftime_A(CurrentDate), extract_showtimes(page)))
    /\ UNCHANGED <<pc, caller, listing_html, site, out_file, cur, args,
                   start_date, prior, failures, raised, handled, escaped,
                   writes, timesVars, parseVars>>

\* Lines 182, 188-193: fetch_page raises (network failure or HTTP status).
EnrichDayFetchError ==
    /\ MayFail
    /\ EnrichDay("fetch_error", <<>>, ErrorEntry(strftime_A(CurrentDate)))
    /\ failures' = failures + 1
    /\ UNCHANGED <<pc, caller, listing_html, site, out_file, cur, args,
                   start_date, prior, raised, handled, escaped, writes,
                   timesVars, parseVars>>

\* Lines 183, 188-193: the page arrives and extract_showtimes raises.
EnrichDayParseError ==
    /\ MayFail
    /\ \E page \in site :
           EnrichDay("parse_error", <<page>>, ErrorEntry(strftime_A(CurrentDate)))
    /\ failures' = failures + 1
    /\ UNCHANGED <<pc, caller, listing_html, site, out_file, cur, args,
                   start_date, prior, raised, handled, escaped, writes,
                   timesVars, parseVars>>

\* Line 173: range(days_to_check) is exhausted, the function returns.
EnrichReturn ==
    /\ pc = "enrich_loop"
    /\ i >= args.days_to_check
    /\ pc' = IF caller = "main" THEN "main_loop" ELSE "returned"
    /\ UNCHANGED <<caller, listing_html, site, out_file, movies, cur, args,
                   start_date, i, prior, fetched, daylog, failures, raised,
                   handled, escaped, writes, timesVars, parseVars>>

(***************************************************************************)
(* Specification SpecEnrich: one call of the enricher on a movie, for any  *)
(* start date and day count of the bounded sets, against a server that     *)
(* answers each GET with a failure or a page.                              *)
(***************************************************************************)
DetailPageA == Page(<<<<H3(<<"A">>), Ol(<<Experience(<<<<"X">>>>, <<TimesA>>)>>)>>>>)

DetailPageB ==
    Page(<<<<H3(<<"B">>), Ol(<<Experience(<<<<"Y">>>>, <<TimesB>>)>>)>>>>)

StartDateStrs ==
    { <<"2", "0", "2", "5", "0", "2", "1", "2">>,
      <<"2", "0", "2", "4", "0", "2", "2", "7">>,
      <<"2", "0", "2", "5", "0", "2", "2", "7">>,
      <<"2", "0", "2", "4", "1", "2", "3", "0">> }

\* What an earlier call with start 20250211 and two days left behind.
EarlierTimings ==
    ("2025-02-11" :> ErrorEntry("Tuesday"))
        @@ ("2025-02-12" :> DayEntry("Wednesday", extract_showtimes(DetailPageB)))

HarnessMovies ==
    {[Movie(slug, "id-1", "Title", "About", "/p.jpg", "PG", "ar", "/s")
          EXCEPT !.timings = t] :
        slug \in {"", "film-a"}, t \in {EmptyMap, EarlierTimings}}

InitEnrich ==
    /\ pc = "idle"
    /\ caller = "harness"
    /\ site = {DetailPageA, DetailPageB}
    /\ movies \in {<<m>> : m \in HarnessMovies}
    /\ listing_html = <<>> /\ out_file = <<>> /\ cur = 0 /\ args = <<>>
    /\ start_date = 0 /\ i = 0 /\ prior = <<>> /\ fetched = <<>>
    /\ daylog = <<>> /\ failures = 0 /\ raised = "" /\ handled = 0
    /\ escaped = FALSE /\ writes = 0
    /\ IdleTimes /\ IdleParse

\* The caller invokes the enricher (lines 151-171).
CallEnrich ==
    /\ pc = "idle"
    /\ \E s \in StartDateStrs, n \in 0..MaxDays : EnterEnricher(1, s, n)
    /\ UNCHANGED <<caller, listing_html, site, out_file, fetched, failures,
                   raised, handled, escaped, writes, timesVars, parseVars>>

NextEnrich ==
    CallEnrich \/ EnrichDayOk \/ EnrichDayFetchError \/ EnrichDayParseError
        \/ EnrichReturn

SpecEnrich == InitEnrich /\ [][NextEnrich]_vars

(***************************************************************************)
(* Specification SpecMain: one run of main.                                *)
(***************************************************************************)
WhatsonUrl == BASE_URL \o "/movies/whatson"

\* Line 225.
MainStartDateStr == <<"2", "0", "2", "5", "0", "2", "1", "2">>

\* Line 226.
MainDaysToCheck == 10

Link(string, href, img) == [string |-> string, href |-> href, img |-> img]

ArticleFull ==
    [data_slug |-> <<<<" ", "f", "i", "l", "m", "-", "a", " ">>>>,
     data_identifier |-> <<<<"H", "O", "1">>>>,
     data_title |-> <<<<"F", "i", "l", "m", " ", "A">>>>,
     description |-> <<<<" ", "A", " ", "f", "i", "l", "m">>>>,
     links |-> <<Link(<<>>, <<<<"/", "a">>>>, <<[data_src |-> <<<<"/", "a", ".", "j", "p", "g">>>>]>>),
                 Link(<<<<"S", "h", "o", "w", "t", "i", "m", "e", "s", " ", ">">>>>,
                      <<<<"/", "a", "#", "s">>>>, <<>>)>>,
     classification |-> <<<<"P", "G">>>>,
     language |-> <<<<"L", "a", "n", "g", "u", "a", "g", "e", ":", " ", "a", "r">>>>]

ArticleBare ==
    [data_slug |-> <<>>, data_identifier |-> <<>>, data_title |-> <<>>,
     description |-> <<>>, links |-> <<>>, classification |-> <<>>,
     language |-> <<>>]

ListingInputs == SeqsUpTo({ArticleFull, ArticleBare}, MaxMovies)

\* "except requests.RequestException": only a failed GET is caught.
CaughtRequestErrors(exc) == exc = "listing_fetch"

\* An except clause that lets OSError through.
CaughtNotOSError(exc) == exc # "write"

\* Line 231: "except Exception" catches every error raised in the try block.
Caught(exc) == TRUE

\* An exception raised in main's try block at lines 215-230: the except
\* clause runs once and main returns, or the exception leaves main.
Raise(exc) ==
    /\ raised' = exc
    /\ handled' = IF Caught(exc) THEN handled + 1 ELSE handled
    /\ escaped' = ~Caught(exc)
    /\ pc' = "done"

\* The save is reached one movie early.
MoviesExhaustedEarly == cur + 1 >= Len(movies)

\* Line 221: the for loop over movies is exhausted.
MoviesExhausted == cur >= Len(movies)

\* asdict(movie) for each movie (line 198).
movies_dict == [n \in 1..Len(movies) |-> movies[n]]

\* The output file before the run: absent, or left by an earlier run.
InitialFiles ==
    { <<>>,
      <<[complete |-> TRUE,
         records |-> <<Movie("old", "", "", "", "", "", "", "")>>]>> }

InitMain ==
    /\ pc = "main_fetch"
    /\ caller = "main"
    /\ listing_html \in ListingInputs
    /\ site = {DetailPageA}
    /\ out_file \in InitialFiles
    /\ movies = <<>> /\ cur = 0 /\ args = <<>> /\ start_date = 0 /\ i = 0
    /\ prior = <<>> /\ fetched = <<>> /\ daylog = <<>> /\ failures = 0
    /\ raised = "" /\ handled = 0 /\ escaped = FALSE /\ writes = 0
    /\ IdleTimes /\ IdleParse

\* Line 215: the listing page arrives.
MainFetchListing ==
    /\ pc = "main_fetch"
    /\ fetched' = Append(fetched, WhatsonUrl)
    /\ pc' = "main_parse"
    /\ UNCHANGED <<caller, listing_html, site, out_file, movies, cur, args,
                   start_date, i, prior, daylog, failures, raised, handled,
                   escaped, writes, timesVars, parseVars>>

\* Line 215: fetch_page raises.
MainFetchListingError ==
    /\ pc = "main_fetch"
    /\ fetched' = Append(fetched, WhatsonUrl)
    /\ Raise("listing_fetch")
    /\ UNCHANGED <<caller, listing_html, site, out_file, movies, cur, args,
                   start_date, i, prior, daylog, failures, writes, timesVars,
                   parseVars>>

\* Line 216.
MainParseListing ==
    /\ pc = "main_parse"
    /\ movies' = parse_movies(listing_html)
    /\ pc' = "main_loop"
    /\ UNCHANGED <<caller, listing_html, site, out_file, cur, args, start_date,
                   i, prior, fetched, daylog, failures, raised, handled,
                   escaped, writes, timesVars, parseVars>>

\* Line 216: parse_movies raises.
MainParseListingError ==
    /\ pc = "main_parse"
    /\ Raise("listing_parse")
    /\ UNCHANGED <<caller, listing_html, site, out_file, movies, cur, args,
                   start_date, i, prior, fetched, daylog, failures, writes,
                   timesVars, parseVars>>

\* Lines 221-227: the next movie is handed to the enricher.
MainEnrichNext ==
    /\ pc = "main_loop"
    /\ cur < Len(movies)
    /\ EnterEnricher(cur + 1, MainStartDateStr, MainDaysToCheck)
    /\ UNCHANGED <<caller, listing_html, site, out_file, fetched, failures,
                   raised, handled, escaped, writes, timesVars, parseVars>>

\* Lines 230, 198-201: the file is opened, written and closed.
MainSave ==
    /\ pc = "main_loop"
    /\ MoviesExhausted
    /\ out_file' = <<[complete |-> TRUE, records |-> movies_dict]>>
    /\ writes' = writes + 1
    /\ pc' = "done"
    /\ UNCHANGED <<caller, listing_html, site, movies, cur, args, start_date, i,
                   prior, fetched, daylog, failures, raised, handled, escaped,
                   timesVars, parseVars>>

\* Line 199: open() raises, the file is as it was.
MainSaveOpenError ==
    /\ pc = "main_loop"
    /\ MoviesExhausted
    /\ Raise("write")
    /\ UNCHANGED <<caller, listing_html, site, out_file, movies, cur, args,
                   start_date, i, prior, fetched, daylog, failures, writes,
                   timesVars, parseVars>>

\* Line 200: json.dump raises after open() truncated the file.
MainSaveWriteError ==
    /\ pc = "main_loop"
    /\ MoviesExhausted
    /\ out_file' = <<[complete |-> FALSE, records |-> <<>>]>>
    /\ Raise("write")
    /\ UNCHANGED <<caller, listing_html, site, movies, cur, args, start_date, i,
                   prior, fetched, daylog, failures, writes, timesVars,
                   parseVars>>

NextMain ==
    \/ MainFetchListing \/ MainFetchListingError
    \/ MainParseListing \/ MainParseListingError
    \/ MainEnrichNext
    \/ EnrichDayOk \/ EnrichDayFetchError \/ EnrichDayParseError \/ EnrichReturn
    \/ MainSave \/ MainSaveOpenError \/ MainSaveWriteError

SpecMain == InitMain /\ [][NextMain]_vars

(***************************************************************************)
(* Properties of the time-list loop (SpecTimes).                           *)
(***************************************************************************)
\* The whole of a text is one time: one or two digits, a colon, two digits.
IsTime(t) ==
    /\ Len(t) \in {4, 5}
    /\ t[Len(t) - 2] = ":"
    /\ \A j \in (1..Len(t)) \ {Len(t) - 2} : IsDigit(t[j])

\* The pattern is found somewhere in the text.
HasTime(t) == \E p \in 1..Len(t), n \in {1, 2} : MatchAt(t, p, n)

\* t occurs in src at position p.
OccursAt(t, src, p) == p + Len(t) - 1 <= Len(src) /\ SubSeq(src, p, p + Len(t) - 1) = t

\* Tokens appear in document order: by item, and within an item by position.
InDocumentOrder(SrcOf(_)) ==
    \A j \in 1..(Len(timings) - 1) :
        \/ origin[j] < origin[j + 1]
        \/ /\ origin[j] = origin[j + 1]
           /\ \E p, q \in 1..Len(SrcOf(nested_ol[origin[j]])) :
                  /\ p + Len(timings[j]) <= q
                  /\ OccursAt(timings[j], SrcOf(nested_ol[origin[j]]), p)
                  /\ OccursAt(timings[j + 1], SrcOf(nested_ol[origin[j]]), q)

TokensFrom(SrcOf(_)) ==
    /\ Len(origin) = Len(timings)
    /\ \A j \in 1..Len(timings) :
           LET src == SrcOf(nested_ol[origin[j]])
           IN  \/ IsTime(timings[j])
               \/ timings[j] = src /\ ~HasTime(src)
    /\ InDocumentOrder(SrcOf)

\* The trimmed text of the whole time item.
ItemText(time_li) == GetText(<<time_li.text>> \o time_li.a)

\* The trimmed text of the item's link when it has one, else of the item.
LinkOrItemText(time_li) ==
    IF time_li.a # <<>> THEN Strip(time_li.a[1]) ELSE Strip(time_li.text)

\* C5 as stated: every token of an experience's list either matches the time
\* pattern or equals the trimmed text of the time item it came from, the
\* latter only when the pattern is not found in that text; tokens are in
\* document order.
C5_TokensFromItemText == TokensFrom(ItemText)

\* C5 amended: every token of an experience's list either matches the time
\* pattern or equals the trimmed text of its item's link when the item has a
\* link, and of the item itself when it has none, the latter only when the
\* pattern is not found in that text; tokens are in document order.
C5_TokensFromLinkOrItemText == TokensFrom(LinkOrItemText)

\* A finished loop that produced a time and an opaque label, the label from
\* an item whose link text differs from the item's text.
C5_Witness ==
    /\ pc = "time_done"
    /\ \E j, j2 \in 1..Len(timings) :
           /\ IsTime(timings[j])
           /\ ~IsTime(timings[j2])
           /\ nested_ol[origin[j2]].a # <<>>
           /\ ItemText(nested_ol[origin[j2]]) # timings[j2]

(***************************************************************************)
(* Properties of extract_showtimes (SpecParse).                            *)
(***************************************************************************)
Nodes == IF detail_html.dates = <<>> THEN <<>> ELSE detail_html.dates[1]

Headings == {p \in 1..Len(Nodes) : Nodes[p].tag = "h3"}

PlaceName(p) == Strip(Nodes[p].text)

\* Headings directly followed by a showtimes list.
DirectHeadings == {p \in Headings : p + 1 <= Len(Nodes) /\ Nodes[p + 1].tag = "ol"}

\* Headings with a showtimes list somewhere after them among the siblings.
KeptHeadings == {p \in Headings : \E q \in (p + 1)..Len(Nodes) : Nodes[q].tag = "ol"}

\* The first showtimes list after heading p.
ListAfter(p) ==
    LET q == CHOOSE q \in (p + 1)..Len(Nodes) :
                 /\ Nodes[q].tag = "ol"
                 /\ \A r \in (p + 1)..(q - 1) : Nodes[r].tag # "ol"
    IN  q

KeptItems(items) == {j \in 1..Len(items) : items[j].strong # <<>> /\ items[j].ol # <<>>}

Label(item) == Strip(item.strong[1])

\* The experience map of one list with the last item of each label winning.
LastWins(items, experience_dict) ==
    /\ DOMAIN experience_dict = {Label(items[j]) : j \in KeptItems(items)}
    /\ \A j \in KeptItems(items) :
           (\A j2 \in KeptItems(items) : j2 > j => Label(items[j2]) # Label(items[j]))
               => experience_dict[Label(items[j])] = ExtractTimings(items[j].ol[1], <<>>)

\* C6 as stated: only headings directly followed by a showtimes list are keys
\* of the result, and each takes its experiences from that list alone.
C6_OnlyImmediateSibling ==
    pc = "parse_done" =>
        /\ DOMAIN timings_by_place = {PlaceName(p) : p \in DirectHeadings}
        /\ \A p \in DirectHeadings :
               (\A p2 \in DirectHeadings : p2 > p => PlaceName(p2) # PlaceName(p))
                   => LastWins(Nodes[p + 1].items, timings_by_place[PlaceName(p)])

\* C10: the result has one entry per name of a kept heading, holding the
\* experience map of the last kept heading of that name; that map has one
\* entry per label of a kept item, holding the time list of the last kept
\* item of that label (never a concatenation).
C10_LastWriterWins ==
    pc = "parse_done" =>
        /\ DOMAIN timings_by_place = {PlaceName(p) : p \in KeptHeadings}
        /\ \A p \in KeptHeadings :
               (\A p2 \in KeptHeadings : p2 > p => PlaceName(p2) # PlaceName(p))
                   => LastWins(Nodes[ListAfter(p)].items, timings_by_place[PlaceName(p)])

\* A parsed page with two kept headings of one name over different lists,
\* the later list holding two kept items of one label with different times.
C10_Witness ==
    /\ pc = "parse_done"
    /\ \E p, p2 \in KeptHeadings :
           /\ p < p2
           /\ PlaceName(p) = PlaceName(p2)
           /\ ListAfter(p) # ListAfter(p2)
           /\ Nodes[ListAfter(p)].items # Nodes[ListAfter(p2)].items
           /\ \A p3 \in KeptHeadings : p3 <= p2
           /\ LET items == Nodes[ListAfter(p2)].items
              IN  \E j, j2 \in KeptItems(items) :
                      /\ j < j2
                      /\ Label(items[j]) = Label(items[j2])
                      /\ items[j].ol # items[j2].ol

(***************************************************************************)
(* The calendar, stated without ordinals: the day after a date, and the    *)
(* weekday by Zeller's congruence.                                         *)
(***************************************************************************)
Date(y, m, d) == [year |-> y, month |-> m, day |-> d]

LeapYear(y) == (y % 4 = 0 /\ y % 100 # 0) \/ y % 400 = 0

MonthLength(y, m) ==
    IF m \in {4, 6, 9, 11} THEN 30
    ELSE IF m = 2 THEN (IF LeapYear(y) THEN 29 ELSE 28)
    ELSE 31

NextDay(d) ==
    IF d.day < MonthLength(d.year, d.month) THEN Date(d.year, d.month, d.day + 1)
    ELSE IF d.month < 12 THEN Date(d.year, d.month + 1, 1)
    ELSE Date(d.year + 1, 1, 1)

RECURSIVE PlusDays(_, _)
PlusDays(d, n) == IF n = 0 THEN d ELSE PlusDays(NextDay(d), n - 1)

ZellerNames ==
    <<"Saturday", "Sunday", "Monday", "Tuesday", "Wednesday", "Thursday", "Friday">>

Weekday(d) ==
    LET m == IF d.month < 3 THEN d.month + 12 ELSE d.month
        y == IF d.month < 3 THEN d.year - 1 ELSE d.year
        h == (d.day + ((13 * (m + 1)) \div 5) + (y % 100) + ((y % 100) \div 4)
                 + ((y \div 100) \div 4) + 5 * (y \div 100)) % 7
    IN  ZellerNames[h + 1]

Iso(d) == Pad4(d.year) \o "-" \o Pad2(d.month) \o "-" \o Pad2(d.day)

Compact(d) == Pad4(d.year) \o Pad2(d.month) \o Pad2(d.day)

DateOf(s) ==
    Date(DigitVal(s[1]) * 1000 + DigitVal(s[2]) * 100 + DigitVal(s[3]) * 10
             + DigitVal(s[4]),
         DigitVal(s[5]) * 10 + DigitVal(s[6]),
         DigitVal(s[7]) * 10 + DigitVal(s[8]))

\* The j-th requested date (j from 1) of the current enricher call.
Requested(j) == PlusDays(DateOf(args.start_date_str), j - 1)

RequestedKeys == {Iso(Requested(j)) : j \in 1..args.days_to_check}

(***************************************************************************)
(* Properties of the enricher (SpecEnrich).                                *)
(***************************************************************************)
TheMovie == movies[1]

\* C1: after the enricher returns, timings has exactly N keys, the ISO
\* strings of the N consecutive dates from the start date, and each entry's
\* day_of_week is the English weekday name of its key's date, whatever was
\* fetched (start 2025-02-12, N = 3: Wednesday, Thursday, Friday).
C1_KeysAndWeekdays ==
    pc = "returned" =>
        /\ DOMAIN TheMovie.timings = RequestedKeys
        /\ Cardinality(DOMAIN TheMovie.timings) = args.days_to_check
        /\ \A j \in 1..args.days_to_check :
               TheMovie.timings[Iso(Requested(j))].day_of_week = Weekday(Requested(j))
        /\ (args.start_date_str = MainStartDateStr /\ args.days_to_check = 3)
               => /\ DOMAIN TheMovie.timings = {"2025-02-12", "2025-02-13", "2025-02-14"}
                  /\ TheMovie.timings["2025-02-12"].day_of_week = "Wednesday"
                  /\ TheMovie.timings["2025-02-13"].day_of_week = "Thursday"
                  /\ TheMovie.timings["2025-02-14"].day_of_week = "Friday"

\* A returned call over three days that crossed the end of February of a
\* leap year, with a failed day and a parsed day.
C1_Witness ==
    /\ pc = "returned"
    /\ args.days_to_check = 3
    /\ "2024-02-29" \in DOMAIN TheMovie.timings
    /\ \E j, j2 \in 1..3 : daylog[j].outcome = "fetch_error" /\ daylog[j2].outcome = "ok"

\* C2: whatever days fail, the enricher does not raise, the loop visits
\* every day, a failed day ends as {its weekday name, showtimes {}} and every
\* other day ends with exactly what the Detail Parser returned for its page.
C2_FailuresContained ==
    pc = "returned" =>
        /\ ~escaped
        /\ Len(daylog) = args.days_to_check
        /\ \A j \in 1..args.days_to_check :
               LET key == Iso(Requested(j))
               IN  /\ daylog[j].key = key
                   /\ key \in DOMAIN TheMovie.timings
                   /\ daylog[j].outcome # "ok" =>
                          TheMovie.timings[key]
                              = [day_of_week |-> Weekday(Requested(j)),
                                 showtimes |-> EmptyMap]
                   /\ daylog[j].outcome = "ok" =>
                          TheMovie.timings[key].showtimes
                              = extract_showtimes(daylog[j].page[1])

\* A returned call whose second day failed between two days that parsed to
\* a non-empty schedule.
C2_Witness ==
    /\ pc = "returned"
    /\ args.days_to_check = 3
    /\ daylog[1].outcome = "ok"
    /\ daylog[2].outcome \in {"fetch_error", "parse_error"}
    /\ daylog[3].outcome = "ok"
    /\ TheMovie.timings[daylog[3].key].showtimes # EmptyMap
    /\ TheMovie.timings[daylog[2].key].showtimes = EmptyMap

OtherFields ==
    {"slug", "identifier", "title", "description", "image_url", "classification",
     "language", "showtimes_url"}

\* What iteration j of the current call stored.
Stored(j) ==
    IF daylog[j].outcome = "ok"
    THEN [day_of_week |-> Weekday(Requested(j)),
          showtimes |-> extract_showtimes(daylog[j].page[1])]
    ELSE [day_of_week |-> Weekday(Requested(j)), showtimes |-> EmptyMap]

\* C7: from its first step on, the enricher leaves every other field of the
\* movie as it was, and timings holds only keys and values this call
\* produced: nothing from before the call survives unless produced again.
C7_TimingsReplaced ==
    pc \in {"enrich_loop", "returned"} =>
        /\ \A f \in OtherFields : TheMovie[f] = prior[f]
        /\ \A key \in DOMAIN TheMovie.timings :
               \E j \in 1..Len(daylog) :
                   daylog[j].key = key /\ TheMovie.timings[key] = Stored(j)
        /\ pc = "returned" => DOMAIN TheMovie.timings = RequestedKeys

\* A returned call on a movie that held two dates of an earlier call: one
\* date is gone, the other was produced again with a new value.
C7_Witness ==
    /\ pc = "returned"
    /\ DOMAIN prior.timings = {"2025-02-11", "2025-02-12"}
    /\ "2025-02-11" \notin DOMAIN TheMovie.timings
    /\ "2025-02-12" \in DOMAIN TheMovie.timings
    /\ TheMovie.timings["2025-02-12"] # prior.timings["2025-02-12"]

\* C8: one call over N days issues exactly N GETs, the j-th to
\* {base}/movies/{slug}?d={YYYYMMDD}#showtimes of the j-th date, one per loop
\* iteration whatever failed before, and an empty slug is requested too.
C8_OneFetchPerDay ==
    pc \in {"enrich_loop", "returned"} =>
        /\ Len(fetched) = i
        /\ pc = "returned" => Len(fetched) = args.days_to_check
        /\ \A j \in 1..Len(fetched) :
               fetched[j] = "https://ksa.voxcinemas.com/movies/" \o TheMovie.slug
                                \o "?d=" \o Compact(Requested(j)) \o "#showtimes"

\* A returned call of three days on a movie with an empty slug whose first
\* request failed.
C8_Witness ==
    /\ pc = "returned"
    /\ TheMovie.slug = ""
    /\ args.days_to_check = 3
    /\ daylog[1].outcome = "fetch_error"
    /\ fetched[3] = "https://ksa.voxcinemas.com/movies/?d=20250301#showtimes"

(***************************************************************************)
(* Properties of main (SpecMain).                                          *)
(***************************************************************************)
ListingFailures == {"listing_fetch", "listing_parse"}

\* C3: a failure of the listing fetch or parse is caught once at top level,
\* the run ends, no detail page is requested, the listing is requested once
\* and the output file is not written.
C3_ListingFailureAborts ==
    raised \in ListingFailures =>
        /\ pc = "done"
        /\ handled = 1
        /\ ~escaped
        /\ fetched = <<WhatsonUrl>>
        /\ writes = 0
        /\ out_file \in InitialFiles

\* A finished run whose listing parse failed on a listing with movies.
C3_Witness ==
    /\ pc = "done"
    /\ raised = "listing_parse"
    /\ Len(listing_html) > 0

\* C4 as stated: a failed write of the output file leaves main uncaught.
C4_WriteErrorPropagates ==
    raised = "write" => (escaped /\ handled = 0)

\* C4 amended: a failed write of the output file propagates out of
\* save_movies_to_json_file into main's try block, where the except clause
\* catches and logs it like a listing failure; main returns normally.
C4_WriteErrorCaught ==
    raised = "write" =>
        /\ pc = "done"
        /\ handled = 1
        /\ ~escaped
        /\ writes = 0

\* A finished run with movies whose write failed.
C4_Witness ==
    /\ pc = "done"
    /\ raised = "write"
    /\ Len(movies) > 0

MainKeys == {Iso(PlusDays(DateOf(MainStartDateStr), j)) : j \in 0..(MainDaysToCheck - 1)}

\* Every movie of the listing has all its requested date entries and every
\* request of the run has been made.
AllEnriched ==
    /\ Len(movies) = Len(listing_html)
    /\ \A n \in 1..Len(movies) : DOMAIN movies[n].timings = MainKeys
    /\ Len(fetched) = 1 + MainDaysToCheck * Len(movies)

\* The save was entered: it completed or it failed.
SaveEntered == writes > 0 \/ raised = "write"

\* C9 as stated: when the listing fetch and parse succeed the output file is
\* written exactly once, and only after every movie has been enriched.
C9_WrittenExactlyOnce ==
    /\ (pc = "done" /\ raised \notin ListingFailures) => writes = 1
    /\ writes > 0 => AllEnriched

C9_State ==
    /\ writes <= 1
    /\ (pc = "done" /\ raised \notin ListingFailures) => SaveEntered
    /\ (pc = "done" /\ raised = "") => writes = 1
    /\ SaveEntered => (pc = "done" /\ AllEnriched)
    /\ writes = 1 => out_file = <<[complete |-> TRUE, records |-> movies]>>

C9_Step ==
    /\ SaveEntered => (fetched' = fetched /\ movies' = movies /\ out_file' = out_file)
    /\ writes' > writes => (~SaveEntered /\ AllEnriched)

\* C9 amended: when the listing fetch and parse succeed the save is entered
\* exactly once, only after every movie has all its date entries however
\* many requests failed; the file is written exactly once unless that write
\* itself fails (then not at all); after the save no request is issued and
\* no record changes.
C9_SavedOnceAtEnd == []C9_State /\ [][C9_Step]_vars

\* A finished run that wrote two movies after failed detail requests.
C9_Witness ==
    /\ pc = "done"
    /\ writes = 1
    /\ Len(movies) = 2
    /\ failures > 0

====
